---- MODULE Spec2Model ----
(***************************************************************************)
(* Zama ACL interactive demo (App.tsx): the simulated FHE library, the     *)
(* React state of the App component and its click handlers.                *)
(*                                                                         *)
(* One handler runs at a time: React flushes the updates queued by a click *)
(* handler before the next click is dispatched, so every action below is   *)
(* the whole handler followed by the commit of the updaters it queued.     *)
(*                                                                         *)
(* The two views are children of <AnimatePresence mode="wait">: the view   *)
(* that is left stays in the document, as it was rendered last and with    *)
(* the handlers of that render, until its exit animation has ended; only   *)
(* then is the other view mounted.                                         *)
(***************************************************************************)
EXTENDS Integers, Sequences, FiniteSets, TLC

\* ------------------------------------------------------------------ bounds
NumIds     == 2        \* distinct outcomes of Math.random() in one run
MaxSteps   == 3        \* ACL handler invocations and clock seconds in a run of Spec
MaxCapOps  == 9        \* decryption requests made before a run of SpecCap is taken up
MaxLibCalls == 3       \* FHELibrary calls in a run of the library harness
NumPaths   == 2        \* distinct paths a component passes to useAsset
MaxLoads   == 2        \* load() calls of one mounted useAsset
MaxPending == 2        \* handler calls whose updates wait for one render

\* --------------------------------------------------------------- constants
Alice        == "0x1234...Alice"
Contract     == "0x5678...Contract"
Gateway      == "0x9999...Gateway"
Roles        == {"User", Alice, Contract, Gateway, "Unauthorized"}
NoCipher     == "null"
LogKeep      == 19
AssetTypes   == {"image", "audio", "json"}
\* What the effect finds when it evaluates process.env.PUBLIC_URL: no
\* process object at all (a browser build that does not define it), the
\* variable unset, or a string. value is what string concatenation makes of
\* it: undefined + path is "undefined" followed by the path.
NoProcess    == [process |-> FALSE, value |-> "ReferenceError"]
Undefined    == [process |-> TRUE, value |-> "undefined"]
Defined(str) == [process |-> TRUE, value |-> str]
PUBLIC_URL   == {NoProcess, Undefined, Defined(""), Defined("/zamaacl")}
NoArgs       == [path |-> "none", type |-> "none"]
\* values of the data state: null, a string, a parsed JSON document
null == [type |-> "null", value |-> "null"]
String(str) == [type |-> "string", value |-> str]

VARIABLES
    stage,           \* useState("landing")
    mounted,         \* the view AnimatePresence has in the document
    shown,           \* what the view that is fading out was rendered from
    role,            \* useState("User")
    ciphertexts,     \* useState<Ciphertext[]>([])
    events,          \* useState<ACLEvent[]>([]), newest first
    selectedCipher,  \* useState<string | null>(null)
    now,             \* wall clock read by new Date().toLocaleTimeString()
    produced,        \* history: every event handed to addEvent, oldest first
    lastOp,          \* history: the ACL handler that ran last, with its arguments
    nOps,            \* history: number of ACL handler invocations explored
    grantedIds,      \* history: ids grantTransientAccess has been applied to
    publicIds,       \* history: ids makePublic has been applied to
    pending,         \* handler calls made since the last render, oldest first
    lib,             \* library harness: the record handed from call to call
    libOp,           \* library harness: the FHELibrary call made last
    libCalls,        \* library harness: history of the calls, oldest first
    libHeap,         \* library harness: the objects and arrays allocated so far
    assetEnv,        \* useAsset: process.env.PUBLIC_URL of this build
    assetEffect,     \* useAsset: "scheduled" from a render to its effect
    assetArgs,       \* useAsset: the (path, type) of the last render
    assetStatus,     \* useAsset: useState("loading")
    assetData,       \* useAsset: useState(null)
    assetLoads       \* useAsset: the load() calls made, oldest first

appVars == <<stage, mounted, shown, role, ciphertexts, events, selectedCipher, now,
             produced, lastOp, nOps, grantedIds, publicIds, pending>>
libVars == <<lib, libOp, libCalls, libHeap>>
assetVars == <<assetEnv, assetEffect, assetArgs, assetStatus, assetData, assetLoads>>
vars == <<appVars, libVars, assetVars>>

\* ----------------------------------------------------------------- helpers
Min(a, b) == IF a < b THEN a ELSE b

\* Array.prototype.includes
Includes(s, x) == \E i \in 1..Len(s) : s[i] = x

\* Array.prototype.slice(from, to) with 0-based, end-exclusive indices
Slice(s, from, to) == SubSeq(s, from + 1, Min(to, Len(s)))

\* [...new Set(s)]: the first occurrence of every element, in order
RECURSIVE SetSpread(_)
SetSpread(s) ==
    IF s = <<>> THEN <<>>
    ELSE LET init == SetSpread(SubSeq(s, 1, Len(s) - 1))
             x    == s[Len(s)]
         IN  IF Includes(init, x) THEN init ELSE Append(init, x)

\* s.find((c) => c.id === id): the position of the first match, 0 when find
\* returns undefined
FindById(s, id) ==
    IF \E i \in 1..Len(s) : s[i].id = id
    THEN CHOOSE i \in 1..Len(s) :
            s[i].id = id /\ \A j \in 1..(i - 1) : s[j].id # id
    ELSE 0

\* mutant: the map replaces every record, the test on the id forgotten
MapByIdAll(s, id, to) == [i \in 1..Len(s) |-> to[i]]

\* s.map((c) => (c.id === id ? to(c) : c)), to[i] the replacement of s[i]
MapById(s, id, to) == [i \in 1..Len(s) |-> IF s[i].id = id THEN to[i] ELSE s[i]]

\* `ct_${Math.random().toString(36).substring(7)}`: rnd numbers the suffix
\* strings Math.random() can yield; equal draws give equal ids
CipherId(rnd) == "ct_" \o ToString(rnd)

\* new Date().toLocaleTimeString() at clock reading t
toLocaleTimeString(t) == ToString(t)

\* ------------------------------------------------------------- FHELibrary
\* mutant: pushes the address without the Set that removes duplicates
allowPush(cipher, addr) ==
    [cipher EXCEPT !.permanentACL = cipher.permanentACL \o <<addr>>]

allow(cipher, addr) ==
    [cipher EXCEPT !.permanentACL = SetSpread(cipher.permanentACL \o <<addr>>)]

\* mutant: pushes the address without the Set that removes duplicates
allowTransientPush(cipher, addr) ==
    [cipher EXCEPT !.transientACL = cipher.transientACL \o <<addr>>]

allowTransient(cipher, addr) ==
    [cipher EXCEPT !.transientACL = SetSpread(cipher.transientACL \o <<addr>>)]

allowThis(cipher, contractAddr) == allow(cipher, contractAddr)

makePubliclyDecryptable(cipher) == [cipher EXCEPT !.isPublic = TRUE]

isSenderAllowed(cipher, sender) ==
    Includes(cipher.permanentACL, sender) \/ Includes(cipher.transientACL, sender)

isAllowed(cipher, addr) ==
    Includes(cipher.permanentACL, addr) \/ Includes(cipher.transientACL, addr)

\* ------------------------------------------- the library on objects
\* The same functions on what they are given at run time: a reference to an
\* object whose permanentACL and transientACL properties are references to
\* arrays. A heap is the arrays and the objects allocated so far, a
\* reference the position of one of them.

\* the record an object reference reads as
Deref(h, ref) ==
    LET o == h.objects[ref]
    IN  [o EXCEPT !.permanentACL = h.arrays[o.permanentACL],
                  !.transientACL = h.arrays[o.transientACL]]

\* a heap holding one record: its object literal and its two array literals
HeapOf(cipher) ==
    [arrays  |-> <<cipher.permanentACL, cipher.transientACL>>,
     objects |-> <<[cipher EXCEPT !.permanentACL = 1, !.transientACL = 2]>>]

\* mutant: allow pushes the address into the list of the record it was
\* given and returns that record (cipher.permanentACL.push(addr); return
\* cipher)
allowPushOnHeap(h, ref, addr) ==
    LET o == h.objects[ref]
    IN  [heap |-> [h EXCEPT !.arrays[o.permanentACL] = @ \o <<addr>>],
         ret  |-> ref]

\* allow: [...new Set([...cipher.permanentACL, addr])] is a new array, and
\* { ...cipher, permanentACL: <it> } a new object with the other properties
\* of cipher copied, so its transientACL is the array cipher has. Nothing
\* that was allocated before is written.
allowOnHeap(h, ref, addr) ==
    LET o      == h.objects[ref]
        arrays == Append(h.arrays, SetSpread(h.arrays[o.permanentACL] \o <<addr>>))
        object == [o EXCEPT !.permanentACL = Len(arrays)]
    IN  [heap |-> [arrays |-> arrays, objects |-> Append(h.objects, object)],
         ret  |-> Len(h.objects) + 1]

\* allowTransient: the same on transientACL
allowTransientOnHeap(h, ref, addr) ==
    LET o      == h.objects[ref]
        arrays == Append(h.arrays, SetSpread(h.arrays[o.transientACL] \o <<addr>>))
        object == [o EXCEPT !.transientACL = Len(arrays)]
    IN  [heap |-> [arrays |-> arrays, objects |-> Append(h.objects, object)],
         ret  |-> Len(h.objects) + 1]

\* allowThis hands its arguments to allow
allowThisOnHeap(h, ref, contractAddr) == allowOnHeap(h, ref, contractAddr)

\* makePubliclyDecryptable: { ...cipher, isPublic: true }, a new object that
\* has both arrays of cipher
makePubliclyDecryptableOnHeap(h, ref) ==
    [heap |-> [h EXCEPT !.objects = Append(@, [h.objects[ref] EXCEPT !.isPublic = TRUE])],
     ret  |-> Len(h.objects) + 1]

\* isAllowed: two includes, nothing is allocated
isAllowedOnHeap(h, ref, addr) ==
    LET o == h.objects[ref]
    IN  [heap |-> h,
         ret  |-> \/ Includes(h.arrays[o.permanentACL], addr)
                  \/ Includes(h.arrays[o.transientACL], addr)]

\* ------------------------------------------------------------------- App
\* mutant: keeps 20 old events, so the log grows to 21
addEventKeep20(prev, event) == <<event>> \o Slice(prev, 0, LogKeep + 1)

\* mutant: pushes the event at the tail of the log
addEventAtTail(prev, event) == Slice(prev, 0, LogKeep) \o <<event>>

\* mutant: setEvents([event, ...events.slice(0, 19)]), built from the events
\* of the last render instead of the updater's argument
addEventStale(prev, event) == <<event>> \o Slice(events, 0, LogKeep)

\* the updater addEvent hands to setEvents
addEvent(prev, event) == <<event>> \o Slice(prev, 0, LogKeep)

ACLEvent(ts, type, ciphertext, actor, details) ==
    [timestamp |-> ts, type |-> type, ciphertext |-> ciphertext,
     actor |-> actor, details |-> details]

newCipher(rnd) ==
    [id |-> CipherId(rnd), data |-> "balance: 1000", owner |-> Alice,
     permanentACL |-> <<>>, transientACL |-> <<>>, isPublic |-> FALSE]

\* mutant: the allowThis grant to the contract is left out
withPermissionsOwnerOnly(rnd) == allow(newCipher(rnd), Alice)

withPermissions(rnd) == allow(allowThis(newCipher(rnd), Contract), Alice)

\* the state a view was rendered from; NoShown when no view is fading out
NoShown == [ciphertexts |-> <<>>, role |-> "User", selectedCipher |-> NoCipher]

\* The render the demo view in the document comes from. While stage is
\* "demo" the view is rendered anew after every commit; once stage is
\* "landing" the view that fades out is the element of its last render.
Rendered ==
    IF stage = "demo"
    THEN [ciphertexts |-> ciphertexts, role |-> role,
          selectedCipher |-> selectedCipher]
    ELSE shown

\* the role constant of the closure the handlers were made in
closureRole == Rendered.role

InitEnv(env) ==
    /\ stage = "landing"
    /\ mounted = "landing"
    /\ shown = NoShown
    /\ role = "User"
    /\ ciphertexts = <<>>
    /\ events = <<>>
    /\ selectedCipher = NoCipher
    /\ now = 0
    /\ produced = <<>>
    /\ lastOp = [op |-> "none", id |-> NoCipher, role |-> "User", ret |-> "none"]
    /\ nOps = 0
    /\ grantedIds = {}
    /\ publicIds = {}
    /\ pending = <<>>
    /\ lib = newCipher(1)
    /\ libOp = [fn |-> "none", addr |-> "none", n |-> 0, ref |-> 1]
    /\ libCalls = <<>>
    /\ libHeap = HeapOf(newCipher(1))
    /\ assetEnv = env
    /\ assetEffect = "none"
    /\ assetArgs = NoArgs
    /\ assetStatus = "loading"
    /\ assetData = null
    /\ assetLoads = <<>>

\* the demo mounts no component that calls useAsset: one environment
Init == InitEnv(Defined("/zamaacl"))

\* a page with a component that calls useAsset, in any environment
InitAsset == \E env \in PUBLIC_URL : InitEnv(env)


\* ------------------------------------------------------------- handlers
RECURSIVE AddEvents(_, _)
\* the setEvents updaters a handler queued through addEvent, run in order
AddEvents(prev, evs) ==
    IF evs = <<>> THEN prev ELSE AddEvents(addEvent(prev, Head(evs)), Tail(evs))

\* what a handler returns: none of the four has a return statement with a
\* value, so the caller gets undefined
HandlerReturn(op) == "undefined"

\* Every event reads the clock for itself (timestamp: new Date()...), so a
\* second can turn between two reads of one handler. turn = k > 0: the second
\* turns after the k-th read; turn = 0: it does not turn during the handler.
ClockTurns(evs) == {0} \cup 1..(Len(evs) - 1)

\* the events with the timestamps of their own clock reads
Stamp(evs, turn) ==
    [i \in 1..Len(evs) |->
        [evs[i] EXCEPT !.timestamp =
            toLocaleTimeString(IF turn > 0 /\ i > turn THEN now + 1 ELSE now)]]

\* A handler has run and React has committed what it queued: next is the
\* result of its setCiphertexts updaters, evs the events it gave to addEvent.
Commit(op, cipherId, next, evs) ==
    \E turn \in ClockTurns(evs) :
    /\ turn = 0 \/ nOps + now + 1 < MaxSteps
    /\ now' = IF turn > 0 THEN now + 1 ELSE now
    /\ ciphertexts' = next
    /\ events' = AddEvents(events, Stamp(evs, turn))
    /\ produced' = produced \o Stamp(evs, turn)
    /\ lastOp' = [op |-> op, id |-> cipherId, role |-> closureRole,
                  ret |-> HandlerReturn(op)]
    /\ nOps' = nOps + 1
    /\ grantedIds' = IF op = "grantTransientAccess"
                     THEN grantedIds \cup {cipherId} ELSE grantedIds
    /\ publicIds' = IF op = "makePublic"
                    THEN publicIds \cup {cipherId} ELSE publicIds
    /\ UNCHANGED <<stage, mounted, shown, role, selectedCipher, pending,
                   libVars, assetVars>>

\* A template literal is the sequence of its parts.
createCiphertextEvents(rnd) ==
    << ACLEvent(toLocaleTimeString(now), "allow", CipherId(rnd), "Contract",
                <<"Ciphertext created: ", CipherId(rnd)>>),
       ACLEvent(toLocaleTimeString(now), "allow", CipherId(rnd), "FHE.allow()",
                <<"Granted to Alice (owner) & Contract (allowThis)">>) >>

\* mutant: the new record is put in front, prev => [newCipher, ...prev]
createCiphertextInFront(prev, rnd) ==
    LET added == <<newCipher(rnd)>> \o prev
    IN  MapById(added, newCipher(rnd).id,
                [i \in 1..Len(added) |-> withPermissions(rnd)])

\* prev => [...prev, newCipher], then
\* prev => prev.map(c => c.id === newCipher.id ? withPermissions : c)
createCiphertextUpdate(prev, rnd) ==
    LET added == prev \o <<newCipher(rnd)>>
    IN  MapById(added, newCipher(rnd).id,
                [i \in 1..Len(added) |-> withPermissions(rnd)])

createCiphertext(rnd) ==
    Commit("createCiphertext", CipherId(rnd),
           createCiphertextUpdate(ciphertexts, rnd), createCiphertextEvents(rnd))

\* mutant: addEvent is called once, outside the map, match or no match
EventsOfMapAlways(prev, cipherId, event) == <<event>>

RECURSIVE EventsOfMap(_, _, _)
\* the addEvent calls made from inside prev.map: one per record with this id
EventsOfMap(prev, cipherId, event) ==
    IF prev = <<>> THEN <<>>
    ELSE (IF Head(prev).id = cipherId THEN <<event>> ELSE <<>>)
         \o EventsOfMap(Tail(prev), cipherId, event)

\* mutant: the grant is given to every record, the test on the id forgotten
grantTransientAccessUpdateAll(prev, cipherId) ==
    [i \in 1..Len(prev) |-> allowTransient(prev[i], Gateway)]

grantTransientAccessUpdate(prev, cipherId) ==
    MapById(prev, cipherId,
            [i \in 1..Len(prev) |-> allowTransient(prev[i], Gateway)])

grantTransientAccessEvents(prev, cipherId) ==
    EventsOfMap(prev, cipherId,
        ACLEvent(toLocaleTimeString(now), "allowTransient", cipherId,
                 "FHE.allowTransient()",
                 <<"Granted transient access to Gateway (EIP-1153 transient storage)">>))

grantTransientAccess(cipherId) ==
    Commit("grantTransientAccess", cipherId,
           grantTransientAccessUpdate(ciphertexts, cipherId),
           grantTransientAccessEvents(ciphertexts, cipherId))

makePublicUpdate(prev, cipherId) ==
    MapById(prev, cipherId,
            [i \in 1..Len(prev) |-> makePubliclyDecryptable(prev[i])])

makePublicEvents(prev, cipherId) ==
    EventsOfMap(prev, cipherId,
        ACLEvent(toLocaleTimeString(now), "makePublic", cipherId,
                 "FHE.makePubliclyDecryptable()",
                 <<"Ciphertext is now publicly decryptable off-chain">>))

makePublic(cipherId) ==
    Commit("makePublic", cipherId,
           makePublicUpdate(ciphertexts, cipherId),
           makePublicEvents(ciphertexts, cipherId))

\* the setCiphertexts updaters of one queued call, run on prev
ApplyUpdate(prev, u) ==
    CASE u.kind = "createCiphertext" -> createCiphertextUpdate(prev, u.rnd)
      [] u.kind = "grantTransientAccess" -> grantTransientAccessUpdate(prev, u.id)
      [] u.kind = "makePublic" -> makePublicUpdate(prev, u.id)
      [] OTHER -> prev

RECURSIVE PendingCiphertexts(_, _)
\* the collection after the queued updaters have run on prev
PendingCiphertexts(prev, q) ==
    IF q = <<>> THEN prev
    ELSE PendingCiphertexts(ApplyUpdate(prev, Head(q)), Tail(q))

\* the ciphertexts constant of the closure the handlers were made in: the
\* list of the render their view comes from
closureCiphertexts == Rendered.ciphertexts

\* const selectedCipherData = ciphertexts.find(c => c.id === selectedCipher)
\* of that render: its position in closureCiphertexts, 0 when undefined
selectedCipherData == FindById(closureCiphertexts, Rendered.selectedCipher)

\* const isAllowed = FHELibrary.isAllowed(cipher, role) || cipher.isPublic
decryptAllowed(cipher, r) == isAllowed(cipher, r) \/ cipher.isPublic

\* mutant: the events name the owner of the record, not the requesting role
attemptDecryptionEventsOwner(cipher, cipherId) ==
    << ACLEvent(toLocaleTimeString(now), "decrypt_attempt", cipherId, cipher.owner,
                <<"Decryption request by ", cipher.owner>>),
       IF decryptAllowed(cipher, closureRole)
       THEN ACLEvent(toLocaleTimeString(now), "decrypt_success", cipherId,
                     "KMS/Coprocessor",
                     <<"ACL check passed. Decryption authorized. Result: ",
                       cipher.data>>)
       ELSE ACLEvent(toLocaleTimeString(now), "decrypt_denied", cipherId,
                     "KMS/Gateway",
                     <<"ACL check failed. ", cipher.owner, " not authorized.">>) >>

\* mutant: the outcome is logged before the decrypt_attempt event
attemptDecryptionEventsOutcomeFirst(cipher, cipherId) ==
    << IF decryptAllowed(cipher, closureRole)
       THEN ACLEvent(toLocaleTimeString(now), "decrypt_success", cipherId,
                     "KMS/Coprocessor",
                     <<"ACL check passed. Decryption authorized. Result: ",
                       cipher.data>>)
       ELSE ACLEvent(toLocaleTimeString(now), "decrypt_denied", cipherId,
                     "KMS/Gateway",
                     <<"ACL check failed. ", closureRole, " not authorized.">>),
       ACLEvent(toLocaleTimeString(now), "decrypt_attempt", cipherId, closureRole,
                <<"Decryption request by ", closureRole>>) >>

attemptDecryptionEvents(cipher, cipherId) ==
    << ACLEvent(toLocaleTimeString(now), "decrypt_attempt", cipherId, closureRole,
                <<"Decryption request by ", closureRole>>),
       IF decryptAllowed(cipher, closureRole)
       THEN ACLEvent(toLocaleTimeString(now), "decrypt_success", cipherId,
                     "KMS/Coprocessor",
                     <<"ACL check passed. Decryption authorized. Result: ",
                       cipher.data>>)
       ELSE ACLEvent(toLocaleTimeString(now), "decrypt_denied", cipherId,
                     "KMS/Gateway",
                     <<"ACL check failed. ", closureRole, " not authorized.">>) >>

\* mutant: a decryption uses up the transient grants of the record
attemptDecryptionConsumes(prev, cipherId) ==
    MapById(prev, cipherId,
            [i \in 1..Len(prev) |-> [prev[i] EXCEPT !.transientACL = <<>>]])

\* attemptDecryption calls no setCiphertexts
attemptDecryptionUpdate(prev, cipherId) == prev

attemptDecryption(cipherId) ==
    LET found == FindById(closureCiphertexts, cipherId)
    IN  IF found = 0
        THEN UNCHANGED vars
        ELSE Commit("attemptDecryption", cipherId,
                    attemptDecryptionUpdate(ciphertexts, cipherId),
                    attemptDecryptionEvents(closureCiphertexts[found], cipherId))

\* ------------------------------------------------------------ the buttons
Untouched == <<ciphertexts, events, now, produced, lastOp, nOps,
               grantedIds, publicIds, pending, libVars, assetVars>>

\* the run has neither used up its handler invocations nor its seconds
WithinSteps == nOps + now < MaxSteps

\* "Launch Interactive Demo": setStage("demo"); the button is there as long as
\* the landing view is in the document
ClickLaunch ==
    /\ mounted = "landing"
    /\ stage' = "demo"
    /\ UNCHANGED <<mounted, shown, role, selectedCipher>>
    /\ UNCHANGED Untouched

\* mutant: "Back to Landing" empties the collection and nothing else
ClickBackClearsRecords ==
    /\ mounted = "demo"
    /\ stage' = "landing"
    /\ shown' = Rendered
    /\ ciphertexts' = <<>>
    /\ UNCHANGED <<mounted, role, selectedCipher, events, now, produced, lastOp,
                   nOps, grantedIds, publicIds, pending, libVars, assetVars>>

\* "Back to Landing": setStage("landing"); from now on the demo view in the
\* document is the one of the render before this click
ClickBack ==
    /\ mounted = "demo"
    /\ stage' = "landing"
    /\ shown' = Rendered
    /\ UNCHANGED <<mounted, role, selectedCipher>>
    /\ UNCHANGED Untouched

\* the exit animation of the view that was left has ended: AnimatePresence
\* takes it out of the document and mounts the view of the current stage
ExitComplete ==
    /\ mounted # stage
    /\ mounted' = stage
    /\ shown' = NoShown
    /\ UNCHANGED <<stage, role, selectedCipher>>
    /\ UNCHANGED Untouched

\* the role <select>: it shows the role of its render, onChange fires for
\* any other option
ChangeRole ==
    /\ mounted = "demo"
    /\ \E r \in Roles \ {closureRole} : role' = r
    /\ UNCHANGED <<stage, mounted, shown, selectedCipher>>
    /\ UNCHANGED Untouched

\* a button of the ciphertext list, one per record of the rendered list
ClickCipher ==
    /\ mounted = "demo"
    /\ \E i \in 1..Len(closureCiphertexts) :
          selectedCipher' = closureCiphertexts[i].id
    /\ UNCHANGED <<stage, mounted, shown, role>>
    /\ UNCHANGED Untouched

\* "+ Create Ciphertext"
ClickCreate ==
    /\ mounted = "demo"
    /\ WithinSteps
    /\ \E rnd \in 1..NumIds : createCiphertext(rnd)

\* "FHE.allowTransient()"
ClickAllowTransient ==
    /\ mounted = "demo"
    /\ WithinSteps
    /\ selectedCipherData # 0
    /\ grantTransientAccess(closureCiphertexts[selectedCipherData].id)

\* "FHE.makePubliclyDecryptable()"
ClickMakePublic ==
    /\ mounted = "demo"
    /\ WithinSteps
    /\ selectedCipherData # 0
    /\ makePublic(closureCiphertexts[selectedCipherData].id)

\* "Test Decryption"
ClickTestDecryption ==
    /\ mounted = "demo"
    /\ WithinSteps
    /\ selectedCipherData # 0
    /\ attemptDecryption(closureCiphertexts[selectedCipherData].id)

\* a second passes on the wall clock
Tick ==
    /\ WithinSteps
    /\ now' = now + 1
    /\ UNCHANGED <<stage, mounted, shown, role, ciphertexts, events,
                   selectedCipher, produced, lastOp, nOps, grantedIds,
                   publicIds, pending, libVars, assetVars>>

Next ==
    \/ ClickLaunch
    \/ ClickBack
    \/ ExitComplete
    \/ ChangeRole
    \/ ClickCipher
    \/ ClickCreate
    \/ ClickAllowTransient
    \/ ClickMakePublic
    \/ ClickTestDecryption
    \/ Tick

Spec == Init /\ [][Next]_vars

\* --------------------------------------------------- runs on a filling log
\* A run of the demo taken up after its first handler calls. The user has
\* launched the demo, waited for the demo view, created one ciphertext,
\* selected it and asked MaxCapOps times for its decryption as User, all
\* within the first second. InitCap is the state those calls leave, computed
\* with the operators of the handlers; from there the run goes on with any
\* step of Next. nOps counts the handler invocations made from there.
RECURSIVE Repeat(_, _)
\* n times evs
Repeat(evs, n) == IF n = 0 THEN <<>> ELSE evs \o Repeat(evs, n - 1)

InitCap ==
    LET n == MaxCapOps IN
        /\ stage = "demo"
        /\ mounted = "demo"
        /\ shown = NoShown
        /\ role = "User"
        /\ ciphertexts = createCiphertextUpdate(<<>>, 1)
        /\ selectedCipher = CipherId(1)
        /\ now = 0
        /\ pending = <<>>
        /\ produced = createCiphertextEvents(1)
                          \o Repeat(attemptDecryptionEvents(ciphertexts[1], CipherId(1)), n)
        /\ events = AddEvents(<<>>, produced)
        /\ lastOp = [op |-> "attemptDecryption", id |-> CipherId(1),
                     role |-> "User", ret |-> HandlerReturn("attemptDecryption")]
        /\ nOps = 0
        /\ grantedIds = {}
        /\ publicIds = {}
        /\ lib = newCipher(1)
        /\ libOp = [fn |-> "none", addr |-> "none", n |-> 0, ref |-> 1]
        /\ libCalls = <<>>
        /\ libHeap = HeapOf(newCipher(1))
        /\ assetEnv = Defined("/zamaacl")
        /\ assetEffect = "none"
        /\ assetArgs = NoArgs
        /\ assetStatus = "loading"
        /\ assetData = null
        /\ assetLoads = <<>>

SpecCap == InitCap /\ [][Next]_vars

\* -------------------------------------------------- the library on its own
\* FHELibrary called directly, with any of the demo's identities, each call
\* on the record the call before returned. A run is either such a series of
\* calls or a run of the demo.
\* what the call returns: a record, or the boolean of isAllowed
LibReturn(fn, cipher, addr) ==
    IF fn = "isAllowed"
    THEN (IF isAllowed(cipher, addr) THEN "true" ELSE "false")
    ELSE "object"

\* the record a call of fn on cipher leaves the caller with: the returned
\* one, or cipher itself when the call only answers
LibValue(fn, cipher, addr) ==
    CASE fn = "allow" -> allow(cipher, addr)
      [] fn = "allowThis" -> allowThis(cipher, addr)
      [] fn = "allowTransient" -> allowTransient(cipher, addr)
      [] fn = "makePubliclyDecryptable" -> makePubliclyDecryptable(cipher)
      [] OTHER -> cipher

\* One call on the object the call before returned. run is what the
\* function did: the heap it left and what it returned.
LibCall(fn, addr, run) ==
    LET ref == IF fn = "isAllowed" THEN libOp.ref ELSE run.ret
        ret == IF fn = "isAllowed"
               THEN (IF run.ret THEN "true" ELSE "false")
               ELSE "object"
    IN  /\ stage = "landing" /\ role = "User" /\ nOps = 0 /\ now = 0
        /\ libOp.n < MaxLibCalls
        /\ libHeap' = run.heap
        /\ lib' = Deref(run.heap, ref)
        /\ libOp' = [fn |-> fn, addr |-> addr, n |-> libOp.n + 1, ref |-> ref]
        /\ libCalls' = Append(libCalls,
                              [fn |-> fn, addr |-> addr, arg |-> lib,
                               out |-> Deref(run.heap, ref), ret |-> ret])
        /\ UNCHANGED <<appVars, assetVars>>

LibAllow ==
    \E addr \in Roles : LibCall("allow", addr, allowOnHeap(libHeap, libOp.ref, addr))

LibAllowThis ==
    \E addr \in Roles :
        LibCall("allowThis", addr, allowThisOnHeap(libHeap, libOp.ref, addr))

LibAllowTransient ==
    \E addr \in Roles :
        LibCall("allowTransient", addr, allowTransientOnHeap(libHeap, libOp.ref, addr))

LibMakePubliclyDecryptable ==
    LibCall("makePubliclyDecryptable", "none",
            makePubliclyDecryptableOnHeap(libHeap, libOp.ref))

\* isAllowed only answers: the record goes on to the next call as it is
LibIsAllowed ==
    \E addr \in Roles : LibCall("isAllowed", addr, isAllowedOnHeap(libHeap, libOp.ref, addr))

\* the demo itself, the library harness left alone
AppStep ==
    /\ libOp.n = 0
    /\ Next

NextLib ==
    \/ LibAllow
    \/ LibAllowThis
    \/ LibAllowTransient
    \/ LibMakePubliclyDecryptable
    \/ LibIsAllowed
    \/ AppStep

SpecLib == Init /\ [][NextLib]_vars

\* ------------------------------------------------------- the useAsset hook
\* One component calling useAsset(path, type). A render with new arguments
\* schedules the effect; the effect calls load(); a load is one such call,
\* its phase says which callback or await it is waiting on.
AssetPaths == {"/asset" \o ToString(n) : n \in 1..NumPaths}

\* process.env.PUBLIC_URL + path
fullPath(path) == assetEnv.value \o path

\* an object document parsed out of the body served at url
jsonBody(url) == [type |-> "object", value |-> url]

\* what response.json() can resolve with: any JSON value the body holds, an
\* object, but also null or false
JsonBodies(url) == {jsonBody(url), null, [type |-> "boolean", value |-> "false"]}

\* load() up to its first callback registration or await
load(path, type) ==
    [path |-> path, type |-> type, fullPath |-> fullPath(path),
     phase |-> IF type = "json" THEN "fetch" ELSE "pending",
     startedIn |-> assetStatus, result |-> "none"]

\* one callback or continuation of load number i runs and sets the state
Settle(i, phase, status, data) ==
    /\ assetLoads' = [assetLoads EXCEPT
                          ![i].phase = phase,
                          ![i].result = IF phase = "done" THEN status ELSE "none"]
    /\ assetStatus' = status
    /\ assetData' = data
    /\ UNCHANGED <<assetEnv, assetEffect, assetArgs, appVars, libVars>>

\* the component renders with (path, type): on the first render and whenever
\* path or type differs from the render before, the effect is scheduled; it
\* runs after the commit, and before the next render
useAsset ==
    \E path \in AssetPaths, type \in AssetTypes :
        /\ assetEffect = "none"
        /\ Len(assetLoads) < MaxLoads
        /\ assetArgs # [path |-> path, type |-> type]
        /\ assetArgs' = [path |-> path, type |-> type]
        /\ assetEffect' = "scheduled"
        /\ UNCHANGED <<assetEnv, assetStatus, assetData, assetLoads, appVars, libVars>>

\* the effect evaluates process.env where no process exists: the
\* ReferenceError is thrown outside the try of load(), out of the effect
effectThrows ==
    /\ assetEffect = "scheduled"
    /\ ~assetEnv.process
    /\ assetEffect' = "threw"
    /\ UNCHANGED <<assetEnv, assetArgs, assetStatus, assetData, assetLoads,
                   appVars, libVars>>

\* the effect calls load(), which registers its callbacks or awaits fetch
effectLoads ==
    /\ assetEffect = "scheduled"
    /\ assetEnv.process
    /\ assetEffect' = "none"
    /\ assetLoads' = Append(assetLoads, load(assetArgs.path, assetArgs.type))
    /\ UNCHANGED <<assetEnv, assetArgs, assetStatus, assetData, appVars, libVars>>

\* the effect calls load() and new Image(), new Audio() or fetch() throws at
\* once: catch, with no callback registered
loadThrows ==
    /\ assetEffect = "scheduled"
    /\ assetEnv.process
    /\ assetEffect' = "none"
    /\ assetStatus' = "missing"
    /\ UNCHANGED <<assetEnv, assetArgs, assetData, assetLoads, appVars, libVars>>

imgOnload ==
    \E i \in 1..Len(assetLoads) :
        /\ assetLoads[i].type = "image" /\ assetLoads[i].phase = "pending"
        /\ Settle(i, "done", "loaded", String(assetLoads[i].fullPath))

imgOnerror ==
    \E i \in 1..Len(assetLoads) :
        /\ assetLoads[i].type = "image" /\ assetLoads[i].phase = "pending"
        /\ Settle(i, "done", "missing", assetData)

audioOncanplaythrough ==
    \E i \in 1..Len(assetLoads) :
        /\ assetLoads[i].type = "audio" /\ assetLoads[i].phase = "pending"
        /\ Settle(i, "done", "loaded", String(assetLoads[i].fullPath))

\* onerror stays registered: the element can fail before it can play
\* through, or after (the rest of the file fails to arrive)
audioOnerror ==
    \E i \in 1..Len(assetLoads) :
        /\ assetLoads[i].type = "audio"
        /\ \/ assetLoads[i].phase = "pending"
           \/ assetLoads[i].phase = "done" /\ assetLoads[i].result = "loaded"
        /\ Settle(i, "done", "missing", assetData)

\* await fetch(fullPath) resolves with response.ok
fetchOk ==
    \E i \in 1..Len(assetLoads) :
        /\ assetLoads[i].phase = "fetch"
        /\ Settle(i, "json", assetStatus, assetData)

\* await fetch(fullPath) resolves with !response.ok
fetchNotOk ==
    \E i \in 1..Len(assetLoads) :
        /\ assetLoads[i].phase = "fetch"
        /\ Settle(i, "done", "missing", assetData)

\* await fetch(fullPath) rejects: catch
fetchRejects ==
    \E i \in 1..Len(assetLoads) :
        /\ assetLoads[i].phase = "fetch"
        /\ Settle(i, "done", "missing", assetData)

\* await response.json() resolves: setData(json), setStatus("loaded")
jsonResolves ==
    \E i \in 1..Len(assetLoads) :
        /\ assetLoads[i].phase = "json"
        /\ \E json \in JsonBodies(assetLoads[i].fullPath) :
              Settle(i, "done", "loaded", json)

\* await response.json() rejects: catch
jsonRejects ==
    \E i \in 1..Len(assetLoads) :
        /\ assetLoads[i].phase = "json"
        /\ Settle(i, "done", "missing", assetData)

NextAsset ==
    \/ useAsset
    \/ effectThrows
    \/ effectLoads
    \/ loadThrows
    \/ imgOnload
    \/ imgOnerror
    \/ audioOncanplaythrough
    \/ audioOnerror
    \/ fetchOk
    \/ fetchNotOk
    \/ fetchRejects
    \/ jsonResolves
    \/ jsonRejects

SpecAsset == InitAsset /\ [][NextAsset]_vars

\* ------------------------------------------ the handlers called directly
\* grantTransientAccess and makePublic taken as functions of an id: called
\* with any id Math.random() can have produced, in the collection or not.
CallGrantTransientAccess ==
    /\ WithinSteps
    /\ \E rnd \in 1..NumIds : grantTransientAccess(CipherId(rnd))

CallMakePublic ==
    /\ WithinSteps
    /\ \E rnd \in 1..NumIds : makePublic(CipherId(rnd))

NextApi ==
    \/ CallGrantTransientAccess
    \/ CallMakePublic
    \/ Next

SpecApi == Init /\ [][NextApi]_vars

\* ------------------------------------------- handler calls in one batch
\* Several handler calls made before React renders again (one event handler
\* calling them in a row). A handler reads ciphertexts, role and events from
\* the closure of the last render; the updaters it hands to setCiphertexts
\* and setEvents are queued and run, in order, at the next render. The one
\* exception is the first updater handed to a setter while the component has
\* no update queued: React may run it at once, inside the setter call, and
\* keep its result for the render (the eager state). The addEvent call such
\* an updater makes is then queued at the place of the handler call, before
\* the events of the calls that follow.

\* the addEvent calls the updaters of one queued call make when run on prev
\* at the render; an updater that ran eagerly is not run again
UpdateEvents(prev, u) ==
    CASE u.eager -> <<>>
      [] u.kind = "grantTransientAccess" -> grantTransientAccessEvents(prev, u.id)
      [] u.kind = "makePublic" -> makePublicEvents(prev, u.id)
      [] OTHER -> <<>>

RECURSIVE PendingUpdaterEvents(_, _)
\* the events the queued updaters hand to addEvent while they run on prev
PendingUpdaterEvents(prev, q) ==
    IF q = <<>> THEN <<>>
    ELSE UpdateEvents(prev, Head(q))
         \o PendingUpdaterEvents(ApplyUpdate(prev, Head(q)), Tail(q))

RECURSIVE PendingDirectEvents(_)
\* the events the queued calls handed to addEvent themselves
PendingDirectEvents(q) ==
    IF q = <<>> THEN <<>> ELSE Head(q).evs \o PendingDirectEvents(Tail(q))

\* whether React may run the updater of this setter call inside the call:
\* only when nothing is queued on the component, and then it may or may not
EagerChoices == IF pending = <<>> THEN BOOLEAN ELSE {FALSE}

\* a handler is called: it queues its updaters; evs are the events handed to
\* addEvent during the call, by the handler itself or by an updater that
\* ran eagerly
Dispatch(op, cipherId, rnd, eager, evs) ==
    \E turn \in ClockTurns(evs) :
    /\ mounted = "demo"
    /\ WithinSteps
    /\ turn = 0 \/ nOps + now + 1 < MaxSteps
    /\ Len(pending) < MaxPending
    /\ now' = IF turn > 0 THEN now + 1 ELSE now
    /\ pending' = Append(pending, [kind |-> op, id |-> cipherId, rnd |-> rnd,
                                   eager |-> eager, evs |-> Stamp(evs, turn)])
    /\ produced' = produced \o Stamp(evs, turn)
    /\ lastOp' = [op |-> op, id |-> cipherId, role |-> closureRole,
                  ret |-> HandlerReturn(op)]
    /\ nOps' = nOps + 1
    /\ grantedIds' = IF op = "grantTransientAccess"
                     THEN grantedIds \cup {cipherId} ELSE grantedIds
    /\ publicIds' = IF op = "makePublic"
                    THEN publicIds \cup {cipherId} ELSE publicIds
    /\ UNCHANGED <<stage, mounted, shown, role, ciphertexts, events,
                   selectedCipher, libVars, assetVars>>

DispatchCreate ==
    /\ mounted = "demo"
    /\ \E rnd \in 1..NumIds :
          Dispatch("createCiphertext", CipherId(rnd), rnd, FALSE,
                   createCiphertextEvents(rnd))

DispatchAllowTransient ==
    /\ selectedCipherData # 0
    /\ LET cipherId == closureCiphertexts[selectedCipherData].id
       IN  \E eager \in EagerChoices :
              Dispatch("grantTransientAccess", cipherId, 0, eager,
                       IF eager THEN grantTransientAccessEvents(ciphertexts, cipherId)
                       ELSE <<>>)

DispatchMakePublic ==
    /\ selectedCipherData # 0
    /\ LET cipherId == closureCiphertexts[selectedCipherData].id
       IN  \E eager \in EagerChoices :
              Dispatch("makePublic", cipherId, 0, eager,
                       IF eager THEN makePublicEvents(ciphertexts, cipherId)
                       ELSE <<>>)

DispatchTestDecryption ==
    /\ selectedCipherData # 0
    /\ LET cipherId == closureCiphertexts[selectedCipherData].id
           found == FindById(closureCiphertexts, cipherId)
       IN  IF found = 0
           THEN UNCHANGED vars
           ELSE Dispatch("attemptDecryption", cipherId, 0, FALSE,
                         attemptDecryptionEvents(closureCiphertexts[found], cipherId))

\* React renders: the queued updaters run in order, each of their events
\* reading the clock as it is made, and the state is committed
Flush ==
    /\ pending # <<>>
    /\ LET updaterEvents == PendingUpdaterEvents(ciphertexts, pending)
       IN  \E turn \in ClockTurns(updaterEvents) :
              /\ turn = 0 \/ nOps + now + 1 < MaxSteps
              /\ now' = IF turn > 0 THEN now + 1 ELSE now
              /\ events' = AddEvents(events, PendingDirectEvents(pending)
                                             \o Stamp(updaterEvents, turn))
              /\ produced' = produced \o Stamp(updaterEvents, turn)
    /\ ciphertexts' = PendingCiphertexts(ciphertexts, pending)
    /\ pending' = <<>>
    /\ UNCHANGED <<stage, mounted, shown, role, selectedCipher, lastOp, nOps,
                   grantedIds, publicIds, libVars, assetVars>>

\* a click of its own: React has rendered before it is handled
ClickRendered ==
    /\ pending = <<>>
    /\ ClickLaunch \/ ClickBack \/ ExitComplete \/ ChangeRole \/ ClickCipher

NextPending ==
    \/ ClickRendered
    \/ DispatchCreate
    \/ DispatchAllowTransient
    \/ DispatchMakePublic
    \/ DispatchTestDecryption
    \/ Flush
    \/ Tick

SpecPending == Init /\ [][NextPending]_vars

\* ================================================================== claims
\* identity p is in permanentACL, or in transientACL, or the record is public
InACLOrPublic(c, p) ==
    \/ \E i \in 1..Len(c.permanentACL) : c.permanentACL[i] = p
    \/ \E i \in 1..Len(c.transientACL) : c.transientACL[i] = p
    \/ c.isPublic

Reverse(s) == [i \in 1..Len(s) |-> s[Len(s) + 1 - i]]

\* the events the step handed to addEvent, oldest first
NewEvents == SubSeq(produced', Len(produced) + 1, Len(produced'))

\* the step is an invocation of the handler op
StepOf(op) == nOps' = nOps + 1 /\ lastOp'.op = op

Outcomes == {"decrypt_success", "decrypt_denied"}

\* C1: an attemptDecryption(id) made with the selected role produces exactly
\* one outcome event, which is decrypt_success if and only if, at call time,
\* the role is in the record's permanentACL or transientACL or the record is
\* public, and decrypt_denied otherwise. The record is the one the store
\* holds when the call is made, the role the one the call names in its
\* events.
C1_GrantedIffAuthorized ==
    [][ StepOf("attemptDecryption") =>
          /\ Cardinality({k \in 1..Len(NewEvents) : NewEvents[k].type \in Outcomes}) = 1
          /\ events'[1].type \in Outcomes
          /\ events'[1].ciphertext = lastOp'.id
          /\ \A i \in 1..Len(ciphertexts) :
                ciphertexts[i].id = lastOp'.id =>
                   /\ events'[1].type = "decrypt_success"
                         <=> InACLOrPublic(ciphertexts[i], lastOp'.role)
                   /\ events'[1].type = "decrypt_denied"
                         <=> ~InACLOrPublic(ciphertexts[i], lastOp'.role)
      ]_vars

\* C2: right after createCiphertext the new record (the last of the
\* collection) is authorized for its owner and for the contract, is not
\* public, has an empty transientACL, and its permanentACL is exactly the
\* contract followed by the owner.
C2_FreshRecord ==
    lastOp.op = "createCiphertext" =>
        LET c == ciphertexts[Len(ciphertexts)]
        IN  /\ c.id = lastOp.id
            /\ InACLOrPublic(c, c.owner)
            /\ InACLOrPublic(c, Contract)
            /\ c.isPublic = FALSE
            /\ c.transientACL = <<>>
            /\ c.permanentACL = <<Contract, Alice>>

\* a record was created under an id that had been made public before
C2_Witness ==
    /\ lastOp.op = "createCiphertext"
    /\ lastOp.id \in publicIds
    /\ Len(ciphertexts) = 2

\* C3: monotonicity: an identity authorized for a record stays authorized
\* for it in the next state, whatever the operation; no step removes an
\* identity from a grant list or clears isPublic.
C3_Monotonic ==
    [][ \A i \in 1..Len(ciphertexts) :
           /\ i <= Len(ciphertexts')
           /\ \A p \in Roles :
                 InACLOrPublic(ciphertexts[i], p) => InACLOrPublic(ciphertexts'[i], p)
           /\ \A k \in 1..Len(ciphertexts[i].transientACL) :
                 Includes(ciphertexts'[i].transientACL, ciphertexts[i].transientACL[k])
           /\ \A k \in 1..Len(ciphertexts[i].permanentACL) :
                 Includes(ciphertexts'[i].permanentACL, ciphertexts[i].permanentACL[k])
           /\ ciphertexts[i].isPublic => ciphertexts'[i].isPublic
      ]_vars

\* C4: a transient grant never expires: once grantTransientAccess(id) has
\* run, the records with that id keep the Gateway in transientACL, and every
\* later attemptDecryption(id) with role Gateway is granted.
C4_TransientNeverExpires ==
    /\ \A i \in 1..Len(ciphertexts) :
          ciphertexts[i].id \in grantedIds =>
              Includes(ciphertexts[i].transientACL, Gateway)
    /\ (/\ lastOp.op = "attemptDecryption"
        /\ lastOp.role = Gateway
        /\ lastOp.id \in grantedIds) => events[1].type = "decrypt_success"

\* C5: once makePublic(id) has run, the records with that id stay public,
\* and every later attemptDecryption(id) is granted, whatever the role.
C5_PublicForever ==
    /\ \A i \in 1..Len(ciphertexts) :
          ciphertexts[i].id \in publicIds => ciphertexts[i].isPublic
    /\ (/\ lastOp.op = "attemptDecryption"
        /\ lastOp.id \in publicIds) => events[1].type = "decrypt_success"

\* C6: the log never holds more than 20 events; it is, newest first, exactly
\* the min(20, n) events produced last, n the number of events produced, so
\* an event added to a full log evicts the one at the tail.
C6_LogCap ==
    /\ Len(events) <= 20
    /\ Len(events) = Min(20, Len(produced))
    /\ events = Reverse(SubSeq(produced, Len(produced) - Len(events) + 1,
                               Len(produced)))

\* more than 20 events were produced and the log is full
C6_Witness ==
    /\ Len(produced) > 20
    /\ Len(events) = 20
    /\ events[20] = produced[Len(produced) - 19]

\* C7: after an attemptDecryption on an existing record the log has the
\* outcome event of the call at the first position and the decrypt_attempt
\* event of the same call at the second.
C7_OutcomeThenAttempt ==
    lastOp.op = "attemptDecryption" =>
        /\ Len(events) >= 2
        /\ events[1] = produced[Len(produced)]
        /\ events[2] = produced[Len(produced) - 1]
        /\ events[1].type \in Outcomes
        /\ events[2].type = "decrypt_attempt"
        /\ events[1].ciphertext = lastOp.id
        /\ events[2].ciphertext = lastOp.id
        /\ events[2].actor = lastOp.role

\* a denied decryption was logged on top of the two events of the creation
C7_Witness ==
    /\ lastOp.op = "attemptDecryption"
    /\ Len(events) >= 4
    /\ events[1].type = "decrypt_denied"
    /\ events[3].type = "allow"

\* C8: a createCiphertext call produces exactly two events for the id of the
\* new record, the creation event and then the default-grants event; after
\* the call the default-grants event is first in the log and the creation
\* event second, on top of the log as it was.
C8_TwoCreationEvents ==
    [][ StepOf("createCiphertext") =>
          /\ Len(NewEvents) = 2
          /\ NewEvents[1].ciphertext = lastOp'.id
          /\ NewEvents[1].details = <<"Ciphertext created: ", lastOp'.id>>
          /\ NewEvents[2].ciphertext = lastOp'.id
          /\ NewEvents[2].actor = "FHE.allow()"
          /\ Len(events') >= 2
          /\ events'[1] = NewEvents[2]
          /\ events'[2] = NewEvents[1]
          /\ SubSeq(events', 3, Len(events')) = SubSeq(events, 1, Len(events') - 2)
      ]_vars

\* a second record was created, its two events on top of those of the first
C8_Witness ==
    /\ lastOp.op = "createCiphertext"
    /\ Len(ciphertexts) = 2
    /\ Len(events) = 4
    /\ events[1].actor = "FHE.allow()"
    /\ events[2].actor = "Contract"

\* C9: idempotence: a second allow, allowTransient or makePubliclyDecryptable
\* with the same argument on the result of the first leaves the permanentACL,
\* the transientACL, the record as they are; a second grantTransientAccess or
\* makePublic on the same id leaves the collection as the first left it.
C9_Idempotent ==
    /\ libOp.fn \in {"allow", "allowThis"} =>
          allow(lib, libOp.addr).permanentACL = lib.permanentACL
    /\ libOp.fn = "allowTransient" =>
          allowTransient(lib, libOp.addr).transientACL = lib.transientACL
    /\ libOp.fn = "makePubliclyDecryptable" =>
          makePubliclyDecryptable(lib) = lib
    /\ lastOp.op = "grantTransientAccess" =>
          grantTransientAccessUpdate(ciphertexts, lastOp.id) = ciphertexts
    /\ lastOp.op = "makePublic" =>
          makePublicUpdate(ciphertexts, lastOp.id) = ciphertexts

\* allowTransient has just added a second identity to the transient list
C9_Witness ==
    /\ libOp.fn = "allowTransient"
    /\ Len(lib.transientACL) = 2
    /\ lib.transientACL[2] = libOp.addr

\* C10: attemptDecryption leaves the record collection as it was, whatever
\* the outcome: only the event log changes.
C10_DecryptionReadOnly ==
    [][ StepOf("attemptDecryption") =>
          /\ ciphertexts' = ciphertexts
          /\ events' # events
          /\ UNCHANGED <<stage, role, selectedCipher>>
      ]_vars

\* a decryption was denied on a record that holds a transient grant
C10_Witness ==
    /\ lastOp.op = "attemptDecryption"
    /\ events[1].type = "decrypt_denied"
    /\ \E i \in 1..Len(ciphertexts) :
          /\ ciphertexts[i].id = lastOp.id
          /\ ciphertexts[i].transientACL = <<Gateway>>

\* no element of s occurs twice
NoRepeat(s) == \A i, j \in 1..Len(s) : s[i] = s[j] => i = j

\* C11: the library predicates isAllowed and isSenderAllowed return true
\* exactly when the identity is in permanentACL, or in transientACL, or the
\* record is public; on a public record they return true for everyone.
C11_LibraryPredicate ==
    \A p \in Roles :
        /\ isAllowed(lib, p) = InACLOrPublic(lib, p)
        /\ isSenderAllowed(lib, p) = InACLOrPublic(lib, p)
        /\ lib.isPublic => isAllowed(lib, p) /\ isSenderAllowed(lib, p)

\* C12: no two records of the collection have the same id.
C12_UniqueIds ==
    \A i, j \in 1..Len(ciphertexts) :
        ciphertexts[i].id = ciphertexts[j].id => i = j

\* C13: the id, the data and the owner of a record are the same in the next
\* state, whatever the step.
C13_ImmutableFields ==
    [][ \A i \in 1..Len(ciphertexts) :
           /\ i <= Len(ciphertexts')
           /\ ciphertexts'[i].id = ciphertexts[i].id
           /\ ciphertexts'[i].data = ciphertexts[i].data
           /\ ciphertexts'[i].owner = ciphertexts[i].owner
      ]_vars

\* a record has been through grantTransientAccess and makePublic
C13_Witness ==
    \E i \in 1..Len(ciphertexts) :
        /\ ciphertexts[i].isPublic
        /\ ciphertexts[i].transientACL = <<Gateway>>
        /\ ciphertexts[i].data = "balance: 1000"

\* C14: no record holds an identity twice in permanentACL or in
\* transientACL, and granting an identity a list already holds leaves the
\* list as it is, members and order.
C14_NoDuplicates ==
    /\ NoRepeat(lib.permanentACL)
    /\ NoRepeat(lib.transientACL)
    /\ \A i \in 1..Len(ciphertexts) :
          NoRepeat(ciphertexts[i].permanentACL) /\ NoRepeat(ciphertexts[i].transientACL)
    /\ \A p \in Roles :
          /\ Includes(lib.permanentACL, p) =>
                allow(lib, p).permanentACL = lib.permanentACL
          /\ Includes(lib.transientACL, p) =>
                allowTransient(lib, p).transientACL = lib.transientACL

\* three permanent grants were made and the last one repeated the first
C14_Witness ==
    /\ libOp.n = 3
    /\ libOp.fn = "allow"
    /\ lib.transientACL = <<>>
    /\ ~lib.isPublic
    /\ Len(lib.permanentACL) = 2
    /\ lib.permanentACL[1] = libOp.addr

\* C15: the decrypt_attempt event has the requesting role as actor; the
\* message of a decrypt_success event holds the data of the requested
\* record; the message of a decrypt_denied event names the rejected role,
\* the role of the attempt event of the same call.
C15_EventContents ==
    lastOp.op = "attemptDecryption" =>
        /\ events[2].type = "decrypt_attempt"
        /\ events[2].actor = lastOp.role
        /\ Includes(events[2].details, lastOp.role)
        /\ events[1].type = "decrypt_success" =>
              \A i \in 1..Len(ciphertexts) :
                  ciphertexts[i].id = lastOp.id =>
                      Includes(events[1].details, ciphertexts[i].data)
        /\ events[1].type = "decrypt_denied" =>
              /\ Includes(events[1].details, lastOp.role)
              /\ Includes(events[1].details, events[2].actor)

\* the contract was granted a decryption through the permanent list
C15_Witness ==
    /\ lastOp.op = "attemptDecryption"
    /\ lastOp.role = Contract
    /\ events[1].type = "decrypt_success"
    /\ events[1].details[2] = "balance: 1000"

\* C16: attemptDecryption returns an outcome value, granted or denied, to
\* its caller.
C16_ReturnsOutcome ==
    lastOp.op = "attemptDecryption" => lastOp.ret \in {"granted", "denied"}

\* the last handler call was a grant on an id no record has
MissingIdCall ==
    /\ lastOp.op \in {"grantTransientAccess", "makePublic"}
    /\ FindById(ciphertexts, lastOp.id) = 0

\* C17: grantTransientAccess or makePublic called with an id no record has
\* fails fast instead of completing normally.
C17_MissingIdFailsFast == MissingIdCall => lastOp.ret = "throws"

\* C17 as amended: such a call completes normally and does nothing: the
\* collection and the log are as before and the call returns undefined.
C17_MissingIdNoOp ==
    [][ ( /\ StepOf("grantTransientAccess") \/ StepOf("makePublic")
          /\ FindById(ciphertexts, lastOp'.id) = 0 ) =>
          /\ ciphertexts' = ciphertexts
          /\ events' = events
          /\ produced' = produced
          /\ lastOp'.ret = "undefined"
      ]_vars

\* makePublic was called with an id of no record while a record existed
C17_Witness ==
    /\ lastOp.op = "makePublic"
    /\ FindById(ciphertexts, lastOp.id) = 0
    /\ Len(ciphertexts) >= 1
    /\ events[1].type = "allow"

\* C18: records are never deleted and keep their insertion order: the number
\* of records never goes down, a createCiphertext adds exactly one record,
\* at the end, any other step adds none, and every record stays at its
\* position.
C18_InsertionOrder ==
    [][ /\ Len(ciphertexts') >= Len(ciphertexts)
        /\ \A i \in 1..Len(ciphertexts) : ciphertexts'[i].id = ciphertexts[i].id
        /\ IF StepOf("createCiphertext")
           THEN /\ Len(ciphertexts') = Len(ciphertexts) + 1
                /\ ciphertexts'[Len(ciphertexts')].id = lastOp'.id
           ELSE Len(ciphertexts') = Len(ciphertexts)
      ]_vars

\* two records of different ids, the first changed after the second came
C18_Witness ==
    /\ Len(ciphertexts) = 2
    /\ ciphertexts[1].id # ciphertexts[2].id
    /\ ciphertexts[1].isPublic
    /\ ~ciphertexts[2].isPublic

\* C19: every load useAsset starts begins in status loading, and once every
\* load started has run its completion the status is loaded with data set,
\* or missing.
C19_LoadLifecycle ==
    /\ \A i \in 1..Len(assetLoads) : assetLoads[i].startedIn = "loading"
    /\ ( /\ assetLoads # <<>>
         /\ \A i \in 1..Len(assetLoads) : assetLoads[i].phase = "done" ) =>
          \/ assetStatus = "loaded" /\ assetData # null
          \/ assetStatus = "missing"

\* C20: "Back to Landing" resets the demo: after it the collection and the
\* log are empty, no ciphertext is selected and the role is User.
C20_BackResets ==
    [][ (stage = "demo" /\ stage' = "landing") =>
          /\ ciphertexts' = <<>>
          /\ events' = <<>>
          /\ selectedCipher' = NoCipher
          /\ role' = "User"
      ]_vars

\* C21: an invocation of grantTransientAccess(id) or makePublic(id) on an
\* existing record hands exactly one event to the log, of type allowTransient
\* or makePublic respectively and about that id, also when the record does
\* not change.
C21_OneEventPerGrant ==
    [][ \A op \in {"grantTransientAccess", "makePublic"} :
           (StepOf(op) /\ FindById(ciphertexts, lastOp'.id) # 0) =>
              /\ Len(NewEvents) = 1
              /\ NewEvents[1].type = (IF op = "makePublic" THEN "makePublic"
                                      ELSE "allowTransient")
              /\ NewEvents[1].ciphertext = lastOp'.id
              /\ events'[1] = NewEvents[1]
      ]_vars

\* the ACL state of a record
ACLState(c) == <<c.permanentACL, c.transientACL, c.isPublic>>

\* C22: a call of allow, allowThis, allowTransient, makePubliclyDecryptable
\* or isAllowed leaves the record it is given, and every other object and
\* array that existed before it, reading as before; the ACL state it
\* results in and its answer are those the function gives for the value of
\* the record and the argument alone; and two calls of one function with
\* equal record and equal argument give the same ACL state and the same
\* answer.
C22_PureDeterministic ==
    [][libOp'.n = libOp.n + 1 =>
        LET call == libCalls'[Len(libCalls')]
        IN  /\ call.arg = Deref(libHeap, libOp.ref)
            /\ Deref(libHeap', libOp.ref) = call.arg
            /\ \A r \in 1..Len(libHeap.objects) :
                   /\ libHeap'.objects[r] = libHeap.objects[r]
                   /\ Deref(libHeap', r) = Deref(libHeap, r)
            /\ \A a \in 1..Len(libHeap.arrays) :
                   libHeap'.arrays[a] = libHeap.arrays[a]
            /\ ACLState(call.out) = ACLState(LibValue(call.fn, call.arg, call.addr))
            /\ call.ret = LibReturn(call.fn, call.arg, call.addr)
            /\ \A j \in 1..Len(libCalls) :
                   ( /\ libCalls[j].fn = call.fn
                     /\ libCalls[j].addr = call.addr
                     /\ libCalls[j].arg = call.arg ) =>
                       /\ ACLState(libCalls[j].out) = ACLState(call.out)
                       /\ libCalls[j].ret = call.ret
    ]_vars

\* a grant that changed the record it returned while the record it was
\* given still reads as created, then the same question asked twice of the
\* result
C22_Witness ==
    /\ Len(libCalls) = 3
    /\ libCalls[1].fn = "allowTransient"
    /\ libCalls[1].out # libCalls[1].arg
    /\ Deref(libHeap, 1) = libCalls[1].arg
    /\ Len(libHeap.objects) = 2
    /\ libHeap.objects[2].permanentACL = libHeap.objects[1].permanentACL
    /\ libCalls[2].fn = "isAllowed" /\ libCalls[3].fn = "isAllowed"
    /\ libCalls[2].addr = libCalls[1].addr
    /\ libCalls[3].addr = libCalls[1].addr
    /\ libCalls[2].ret = "true" /\ libCalls[3].ret = "true"

\* C23: every record has permanentACL = [contract, Alice] and a transientACL
\* that is empty or [Gateway]; so a decryption by User or Unauthorized is
\* allowed iff the record is public, and one by the Gateway iff
\* grantTransientAccess or makePublic was applied to the record's id.
C23_FixedLists ==
    \A i \in 1..Len(ciphertexts) :
        LET c == ciphertexts[i]
        IN  /\ c.permanentACL = <<Contract, Alice>>
            /\ c.transientACL \in {<<>>, <<Gateway>>}
            /\ decryptAllowed(c, "User") <=> c.isPublic
            /\ decryptAllowed(c, "Unauthorized") <=> c.isPublic
            /\ decryptAllowed(c, Gateway) <=> c.id \in (grantedIds \cup publicIds)

\* C24: after every step selectedCipher is null or the id of a record of the
\* collection (as it is in the initial state, where it is null), and every
\* invocation of grantTransientAccess, makePublic or attemptDecryption is
\* made with the id of a record the collection holds and the list of the
\* handler's render holds too: the early return of attemptDecryption is not
\* taken.
C24_SelectionExists ==
    [][ /\ selectedCipher' = NoCipher \/ FindById(ciphertexts', selectedCipher') # 0
        /\ \A op \in {"grantTransientAccess", "makePublic", "attemptDecryption"} :
              StepOf(op) =>
                 /\ FindById(ciphertexts, lastOp'.id) # 0
                 /\ FindById(closureCiphertexts, lastOp'.id) # 0
                 /\ produced' # produced
      ]_vars

\* a decryption was asked from the demo view while it faded out, on the
\* record that view shows selected, after another record had been selected
C24_Witness ==
    /\ stage = "landing"
    /\ mounted = "demo"
    /\ Len(ciphertexts) = 2
    /\ selectedCipher = ciphertexts[2].id
    /\ lastOp.op = "attemptDecryption"
    /\ lastOp.id = ciphertexts[1].id
    /\ lastOp.id # selectedCipher

\* C25: every decrypt_success or decrypt_denied event of the log that is not
\* at the 20th position has, at the next older position, a decrypt_attempt
\* event about the same ciphertext; the newest event of the log is never a
\* decrypt_attempt.
C25_OutcomeOverAttempt ==
    /\ \A k \in 1..Len(events) :
          (events[k].type \in Outcomes /\ k # LogKeep + 1) =>
              /\ k + 1 <= Len(events)
              /\ events[k + 1].type = "decrypt_attempt"
              /\ events[k + 1].ciphertext = events[k].ciphertext
    /\ events # <<>> => events[1].type # "decrypt_attempt"

\* the log is full, an outcome at its 20th position, the attempt it answered
\* evicted
C25_Witness ==
    /\ Len(events) = LogKeep + 1
    /\ events[LogKeep + 1].type \in Outcomes
    /\ events[1].type \in Outcomes
    /\ events[2].type = "decrypt_attempt"

\* the event holds the data of a record in one of its fields
HoldsPayload(e, recs) ==
    \E i \in 1..Len(recs) :
        \/ Includes(e.details, recs[i].data)
        \/ e.actor = recs[i].data
        \/ e.ciphertext = recs[i].data

\* C26: the data of a record gets into the log only inside a decrypt_success
\* event, and a decrypt_success event comes only from an attemptDecryption
\* whose role was in permanentACL or transientACL of the record, or whose
\* record was public, at call time: the record as the store holds it then,
\* the role the call names in its events.
C26_PayloadOnlyOnSuccess ==
    [][ \A k \in 1..Len(NewEvents) :
           LET e == NewEvents[k]
           IN  /\ HoldsPayload(e, ciphertexts') => e.type = "decrypt_success"
               /\ e.type = "decrypt_success" =>
                     /\ StepOf("attemptDecryption")
                     /\ \E i \in 1..Len(ciphertexts) :
                           /\ ciphertexts[i].id = e.ciphertext
                           /\ InACLOrPublic(ciphertexts[i], lastOp'.role)
                           /\ Includes(e.details, ciphertexts[i].data)
      ]_vars

\* C27: grantTransientAccess(id) and makePublic(id) keep the number and the
\* order of the records, leave every record of another id as it is, and
\* change of a record of that id only transientACL, respectively only
\* isPublic.
C27_GrantFrame ==
    [][ /\ StepOf("grantTransientAccess") =>
            /\ Len(ciphertexts') = Len(ciphertexts)
            /\ \A i \in 1..Len(ciphertexts) :
                  IF ciphertexts[i].id = lastOp'.id
                  THEN ciphertexts'[i] =
                          [ciphertexts[i] EXCEPT !.transientACL = ciphertexts'[i].transientACL]
                  ELSE ciphertexts'[i] = ciphertexts[i]
        /\ StepOf("makePublic") =>
            /\ Len(ciphertexts') = Len(ciphertexts)
            /\ \A i \in 1..Len(ciphertexts) :
                  IF ciphertexts[i].id = lastOp'.id
                  THEN ciphertexts'[i] =
                          [ciphertexts[i] EXCEPT !.isPublic = ciphertexts'[i].isPublic]
                  ELSE ciphertexts'[i] = ciphertexts[i]
      ]_vars

\* of two records of different ids only the second got the transient grant
C27_Witness ==
    /\ lastOp.op = "grantTransientAccess"
    /\ Len(ciphertexts) = 2
    /\ ciphertexts[1].id # ciphertexts[2].id
    /\ ciphertexts[1].transientACL = <<>>
    /\ ciphertexts[2].transientACL = <<Gateway>>

\* C28: createCiphertext leaves every record that was in the collection as
\* it was, whatever id the call generates.
C28_CreateFrame ==
    [][ StepOf("createCiphertext") =>
          \A i \in 1..Len(ciphertexts) : ciphertexts'[i] = ciphertexts[i]
      ]_vars

\* C29: attemptDecryption decides on the record of the render its handler
\* comes from: its outcome is decrypt_success iff the role is authorized
\* for, or the record public in, that list, whatever updates are queued; and
\* when nothing is queued, every earlier update committed, the outcome is
\* the one the current store gives.
C29_DecidesOnRenderedList ==
    [][ StepOf("attemptDecryption") =>
          LET found == FindById(closureCiphertexts, lastOp'.id)
              store == PendingCiphertexts(ciphertexts, pending)
              outcome == NewEvents[Len(NewEvents)]
          IN  /\ found # 0
              /\ outcome.type \in Outcomes
              /\ outcome.type = "decrypt_success"
                    <=> InACLOrPublic(closureCiphertexts[found], lastOp'.role)
              /\ pending = <<>> =>
                    /\ FindById(store, lastOp'.id) # 0
                    /\ outcome.type = "decrypt_success"
                          <=> InACLOrPublic(store[FindById(store, lastOp'.id)],
                                            lastOp'.role)
      ]_vars

\* C30: once every load has completed, the status is the result of the load
\* started last, the one for the current path and type, and a status loaded
\* comes with the data of the current path, never with null or with the data
\* of an earlier path: no callback of an earlier load overwrites it.
C30_LatestLoadWins ==
    ( /\ assetLoads # <<>>
      /\ \A i \in 1..Len(assetLoads) : assetLoads[i].phase = "done" ) =>
        /\ assetStatus = assetLoads[Len(assetLoads)].result
        /\ assetStatus = "loaded" =>
              /\ assetData # null
              /\ assetData.value = fullPath(assetArgs.path)

====
